---- MODULE Spec2Model ----
(***************************************************************************)
(* Court-order automation: the document-to-action pipeline of app/main.py. *)
(*                                                                         *)
(* A Python str is modelled as a sequence of string pieces, so that an     *)
(* f-string is the concatenation of its pieces and str.strip, str.lower    *)
(* and str.replace act on the pieces.  A document text is a sequence of    *)
(* tokens; consecutive tokens are separated by exactly one blank.  A       *)
(* GraphState (TypedDict, total=False) is a function whose DOMAIN is the   *)
(* set of keys present in the dict.                                        *)
(***************************************************************************)
EXTENDS Integers, Sequences, FiniteSets, TLC

\* ---- bounds of the model ------------------------------------------------
NumRuns == 2        \* pipeline runs (requests) of one server process
MaxUnits == 3       \* phrases per document text

Runs == 1..NumRuns

\* ---- Python values ------------------------------------------------------
\* None, as a value no real string equals
None == <<"<None>">>

\* str(v) inside an f-string
PyStr(v) == IF v = None THEN <<"None">> ELSE v

\* truthiness of an optional str: None and "" are falsy
Truthy(v) == v # None /\ v # <<>>

\* str.lower on one piece of the model's vocabulary
LowerPiece(s) ==
  CASE s = "ORDER" -> "order"
    [] s = ".PDF" -> ".pdf"
    [] s = "National ID" -> "national id"
    [] s = "Freeze" -> "freeze"
    [] s = "Unsupported" -> "unsupported"
    [] s = "Funds" -> "funds"
    [] s = "Release" -> "release"
    [] OTHER -> s

\* str.lower
Lower(str) == [i \in 1..Len(str) |-> LowerPiece(str[i])]

\* str.replace(' ', '_')
ReplaceBlank(str) == [i \in 1..Len(str) |-> IF str[i] = " " THEN "_" ELSE str[i]]

\* str.strip: drop the leading and the trailing blanks
RECURSIVE LStrip(_)
LStrip(str) == IF str # <<>> /\ Head(str) = " " THEN LStrip(Tail(str)) ELSE str

RECURSIVE RStrip(_)
RStrip(str) ==
  IF str # <<>> /\ str[Len(str)] = " " THEN RStrip(SubSeq(str, 1, Len(str) - 1)) ELSE str

Strip(str) == RStrip(LStrip(str))

DigitChars == <<"0", "1", "2", "3", "4", "5", "6", "7", "8", "9">>

\* str(n) of a non-negative int: its decimal digits, no leading zero
RECURSIVE IntToStr(_)
IntToStr(n) ==
  IF n < 10 THEN <<DigitChars[n + 1]>>
  ELSE Append(IntToStr(n \div 10), DigitChars[(n % 10) + 1])

\* ---- document texts -----------------------------------------------------
\* a token is a word or phrase (w), a run of digits (d) or punctuation (w)
Word(w) == [k |-> "word", w |-> w, d |-> <<>>]
Digits(d) == [k |-> "digits", w |-> "", d |-> d]
Punct(w) == [k |-> "punct", w |-> w, d |-> <<>>]

\* number of characters of a word, phrase or punctuation token
CharLen(w) ==
  CASE w = "National ID" -> 11
    [] w = "national id" -> 11
    [] w = "Freeze" -> 6
    [] w = "freeze" -> 6
    [] w = "release" -> 7
    [] w = "unfreeze" -> 8
    [] w = "Unsupported" -> 11
    [] w = "unsupported" -> 11
    [] w = "file" -> 4
    [] w = "type" -> 4
    [] w = "----------" -> 10
    [] OTHER -> 1

TokenLen(t) == IF t.k = "digits" THEN Len(t.d) ELSE CharLen(t.w)

ID1 == <<"1", "2", "3", "4", "5", "6", "7", "8", "9", "0">>
ID2 == <<"9", "9", "9", "9", "9", "9", "9", "9">>

\* the phrases a document text is made of
Units ==
  { <<Word("National ID"), Digits(ID1)>>,
    <<Word("National ID"), Digits(ID2)>>,
    <<Word("National ID"), Punct("----------"), Digits(ID1)>>,
    <<Digits(ID1)>>,
    <<Word("Freeze")>>,
    <<Word("release")>> }

RECURSIVE TextsOf(_)
TextsOf(n) ==
  IF n = 0 THEN {<<>>}
  ELSE TextsOf(n - 1) \cup {t \o u : t \in TextsOf(n - 1), u \in Units}

Texts == TextsOf(MaxUnits)

\* digit runs outside the pattern's 8 to 20 digits
ShortRun == <<"1", "2", "3", "4", "5", "6", "7">>
LongRun == ID1 \o ID1 \o <<"1", "2", "3", "4">>

\* the phrases of the texts entity extraction is exercised on
EntityUnits ==
  Units \cup
  { <<Word("unfreeze")>>,
    <<Word("National ID"), Digits(ShortRun)>>,
    <<Word("National ID"), Digits(LongRun)>> }

RECURSIVE EntityTextsOf(_)
EntityTextsOf(n) ==
  IF n = 0 THEN {<<>>}
  ELSE EntityTextsOf(n - 1) \cup {t \o u : t \in EntityTextsOf(n - 1), u \in EntityUnits}

EntityTexts == EntityTextsOf(MaxUnits)

\* ---- uploaded files -----------------------------------------------------
\* what the decoder of the file's format makes of the bytes: a text, or an
\* exception with a cause
Decoded(text) == [ok |-> TRUE, text |-> text, cause |-> <<>>]
Corrupt == [ok |-> FALSE, text |-> <<>>, cause |-> <<"cannot decode document">>]

Filenames ==
  { <<"order", ".pdf">>, <<"ORDER", ".PDF">>, <<"order", ".docx">>, <<"order", ".txt">>,
    <<"scan", ".png">>, <<"scan", ".jpg">>, <<"scan", ".jpeg">>, <<"order", ".exe">> }

EndsWith(filename, suffix) == filename # <<>> /\ filename[Len(filename)] = suffix

UnsupportedText == <<Word("Unsupported"), Word("file"), Word("type")>>

\* the decoder a filename selects, "" when the suffix is not supported
DecoderOf(filename) ==
  CASE EndsWith(filename, ".pdf") -> "fitz.open"
    [] EndsWith(filename, ".docx") -> "Document"
    [] EndsWith(filename, ".txt") -> "bytes.decode"
    [] EndsWith(filename, ".png") \/ EndsWith(filename, ".jpg") \/ EndsWith(filename, ".jpeg")
         -> "pytesseract.image_to_string"
    [] OTHER -> ""

\* one call of a collaborator, as seen from outside the pipeline
Effect(op, arg) == [op |-> op, arg |-> arg]

\* extract_text_from_any_file: the text, or the exception re-raised
extract_text_from_any_file(file) ==
  LET filename == Lower(file.filename)
      decoder == DecoderOf(filename)
  IN  IF decoder = ""
      THEN [raised |-> FALSE, text |-> UnsupportedText, cause |-> <<>>, effects |-> <<>>]
      ELSE IF file.content.ok
           THEN [raised |-> FALSE, text |-> file.content.text, cause |-> <<>>,
                 effects |-> <<Effect(decoder, <<>>)>>]
           ELSE [raised |-> TRUE, text |-> <<>>, cause |-> file.content.cause,
                 effects |-> <<Effect(decoder, <<>>)>>]

\* ---- language normalisation ---------------------------------------------
\* what langdetect and googletrans do with a text: detect raises or names a
\* language; translate raises or returns a text
TranslatedTexts ==
  { <<>>, <<Word("Freeze"), Word("National ID"), Digits(ID1)>> }

LangOutcomes ==
  { [detect |-> "raise", translate |-> "none", out |-> <<>>],
    [detect |-> "en", translate |-> "none", out |-> <<>>],
    [detect |-> "fr", translate |-> "raise", out |-> <<>>] }
  \cup { [detect |-> "fr", translate |-> "ok", out |-> t] : t \in TranslatedTexts }

\* normalize_language whose except clause returns "" instead of the text
normalize_language_EmptyOnFailure(text, lang) ==
  IF lang.detect = "raise" THEN <<>>
  ELSE IF lang.detect # "en"
       THEN IF lang.translate = "raise" THEN <<>> ELSE lang.out
       ELSE text

normalize_language(text, lang) ==
  IF lang.detect = "raise" THEN text
  ELSE IF lang.detect # "en"
       THEN IF lang.translate = "raise" THEN text ELSE lang.out
       ELSE text

\* ---- entity extraction --------------------------------------------------
MinDigits == 8
MaxDigits == 20
MaxGap == 10

\* the lead-in alternatives of the pattern, lower-cased, with \s* as one blank
LeadIns ==
  { "national id", "id no", "id no.", "identification number", "nid", "id number" }

LowerText(text) ==
  [i \in 1..Len(text) |-> [text[i] EXCEPT !.w = LowerPiece(text[i].w)]]

\* number of characters between token i and token j, the blanks included
RECURSIVE GapLen(_, _, _)
GapLen(text, i, j) ==
  IF i + 1 >= j THEN 1 ELSE 1 + TokenLen(text[i + 1]) + GapLen(text, i + 1, j)

\* the index of the digit run captured by a match that starts at token i, 0
\* when the pattern does not match there
MatchAt(text, i) ==
  IF text[i].w \notin LeadIns THEN 0
  ELSE LET later == {j \in (i + 1)..Len(text) : text[j].k = "digits"}
       IN  IF later = {} THEN 0
           ELSE LET j == CHOOSE m \in later : \A n \in later : m <= n
                IN  IF GapLen(text, i, j) <= MaxGap /\ Len(text[j].d) >= MinDigits
                    THEN j ELSE 0

Min(a, b) == IF a <= b THEN a ELSE b

\* group(1) of the match that starts at token i: \d{8,20} is greedy
CapturedAt(text, i) ==
  LET d == text[MatchAt(text, i)].d
  IN  SubSeq(d, 1, Min(Len(d), MaxDigits))

\* re.search(...): group(1) of the leftmost match, None without a match
NationalIdMatch(lowered) ==
  LET starts == {i \in 1..Len(lowered) : MatchAt(lowered, i) # 0}
  IN  IF starts = {} THEN None
      ELSE CapturedAt(lowered, CHOOSE m \in starts : \A n \in starts : m <= n)

FREEZE_FUNDS == <<"freeze", "_", "funds">>
RELEASE_FUNDS == <<"release", "_", "funds">>

action_keywords ==
  << [key |-> FREEZE_FUNDS, synonyms |-> <<"freeze", "block", "hold", "suspend", "restrict">>],
     [key |-> RELEASE_FUNDS,
      synonyms |-> <<"release", "unfreeze", "lift", "reactivate", "terminate">>] >>

\* the keyword occurs inside the token
Contains(token_word, word) ==
  token_word = word \/ (token_word = "unfreeze" /\ word = "freeze")

\* re.search(word, lowered_text), without the \b anchors
WholeWord_Substring(lowered, word) ==
  \E i \in 1..Len(lowered) : lowered[i].k = "word" /\ Contains(lowered[i].w, word)

\* re.search(rf"\b{word}\b", lowered_text): a token that is the word
WholeWord(lowered, word) ==
  \E i \in 1..Len(lowered) : lowered[i].k = "word" /\ lowered[i].w = word

\* the loops over action_keywords from entry a on
RECURSIVE ActionFrom(_, _)
ActionFrom(lowered, a) ==
  IF a > Len(action_keywords) THEN None
  ELSE IF \E s \in 1..Len(action_keywords[a].synonyms) :
            WholeWord(lowered, action_keywords[a].synonyms[s])
       THEN action_keywords[a].key
       ELSE ActionFrom(lowered, a + 1)

extract_entities_with_regex(text) ==
  LET lowered_text == LowerText(text)
  IN  [national_id |-> NationalIdMatch(lowered_text), action |-> ActionFrom(lowered_text, 1)]

\* ---- action functions ---------------------------------------------------
freeze_funds(customer_id) == <<"Funds frozen for customer ">> \o PyStr(customer_id)
release_funds(customer_id) == <<"Funds released for customer ">> \o PyStr(customer_id)

\* the two handlers registered under each other's key
action_function_map_Swapped ==
  (FREEZE_FUNDS :> "release_funds") @@ (RELEASE_FUNDS :> "freeze_funds")

action_function_map ==
  (FREEZE_FUNDS :> "freeze_funds") @@ (RELEASE_FUNDS :> "release_funds")

CallHandler(name, customer_id) ==
  IF name = "freeze_funds" THEN freeze_funds(customer_id) ELSE release_funds(customer_id)

\* ---- reference tables ---------------------------------------------------
\* a cell of the national_id column as pd.read_csv leaves it: an int64, or a
\* str of an object column
IntCell(i) == [t |-> "int", i |-> i, s |-> <<>>]
StrCell(s) == [t |-> "str", i |-> 0, s |-> s]

Row(cell, customer_id) == [national_id |-> cell, customer_id |-> customer_id]

\* the contents of data/customers.csv (columns national_id, customer_id) the
\* model starts from
Registries ==
  { <<>>,
    <<Row(IntCell(1234567890), <<"CUST001">>)>>,
    <<Row(StrCell(<<" ">> \o ID1 \o <<" ">>), <<"CUST001">>),
      Row(StrCell(<<"unknown">>), <<"CUST002">>)>>,
    <<Row(IntCell(1234567890), <<"CUST001">>), Row(IntCell(1234567890), <<"CUST002">>)>>,
    <<Row(IntCell(99999999), <<"CUST003">>)>> }

\* the contents of data/actions.csv (column action_name) the model starts from
Catalogs ==
  { << <<"Freeze", " ", "Funds">>, <<"Release", " ", "Funds">> >>,
    << <<"Release", " ", "Funds">> >> }

\* VALID_ACTIONS: canonical key -> action name (a later row replaces an earlier)
CanonicalKey(action_name) == ReplaceBlank(Lower(action_name))

VALID_ACTIONS(actions_db) ==
  [key \in {CanonicalKey(actions_db[i]) : i \in 1..Len(actions_db)} |->
     LET rows == {i \in 1..Len(actions_db) : CanonicalKey(actions_db[i]) = key}
     IN  actions_db[CHOOSE m \in rows : \A n \in rows : m >= n]]

\* .astype(str).str.strip() on one cell
AsStrStrip(cell) ==
  StrCell(Strip(IF cell.t = "int" THEN IntToStr(cell.i) ELSE cell.s))

\* ---- GraphState ----------------------------------------------------------
\* state[key] = value
Put(state, key, value) == (key :> value) @@ state

\* state.get(key, default)
Get(state, key, default) == IF key \in DOMAIN state THEN state[key] ELSE default

\* what a node returns: the GraphState, the registry it leaves and the calls
\* it made
Step(state, db, effects) == [state |-> state, db |-> db, effects |-> effects]

\* ---- LangGraph nodes -----------------------------------------------------
extract_text_node(state, db, lang) ==
  LET raw == extract_text_from_any_file(state.file)
  IN  IF raw.raised
      THEN Step(Put(state, "error", <<"Failed to extract text: ">> \o raw.cause),
                db, raw.effects)
      ELSE Step(Put(state, "text", normalize_language(raw.text, lang)), db, raw.effects)

\* no `'error' in state` guard: the node runs its body after a failed
\* extraction too, on the default text ""; its except clause is not modelled
\* (nothing in the try block raises on a str)
parse_text_node(state, db) ==
  LET text == Get(state, "text", <<>>)
      parsed == extract_entities_with_regex(text)
  IN  Step(Put(Put(state, "national_id", parsed.national_id), "action", parsed.action),
           db, <<>>)

NotFoundError(national_id) ==
  <<"National ID ">> \o national_id \o <<" not found in bank records. Order discarded.">>

MissingIdError == <<"No national ID detected in the document.">>

\* CUSTOMER_DB['national_id'].astype(str).str.strip(), assigned to the column
NormalizedColumn(db) ==
  [i \in 1..Len(db) |-> [db[i] EXCEPT !.national_id = AsStrStrip(@)]]

\* the index of match.iloc[0], 0 when match.empty
FirstMatch(db, national_id) ==
  LET match == {i \in 1..Len(db) : db[i].national_id.s = national_id}
  IN  IF match = {} THEN 0 ELSE CHOOSE m \in match : \A n \in match : m <= n

\* validate_customer_node without the else branch: an unmatched identifier
\* records no error
validate_customer_node_NoDiscard(state, db) ==
  LET raw_id == Get(state, "national_id", None)
  IN  IF ~Truthy(raw_id)
      THEN Step(Put(state, "error", MissingIdError), db, <<>>)
      ELSE LET national_id == Strip(raw_id)
               newdb == NormalizedColumn(db)
               first == FirstMatch(newdb, national_id)
           IN  IF first # 0
               THEN Step(Put(state, "customer_id", newdb[first].customer_id),
                         newdb, <<Effect("lookup", national_id)>>)
               ELSE Step(state, newdb, <<Effect("lookup", national_id)>>)

\* no `'error' in state` guard either; the except clause is not modelled: with
\* both columns in the table nothing in the try block raises
\* validate_customer_node assigning the filtered frame, not the column, to
\* the global: the registry keeps only the rows that matched
validate_customer_node_KeepsMatchOnly(state, db) ==
  LET raw_id == Get(state, "national_id", None)
  IN  IF ~Truthy(raw_id)
      THEN Step(Put(state, "error", MissingIdError), db, <<>>)
      ELSE LET national_id == Strip(raw_id)
               newdb == NormalizedColumn(db)
               first == FirstMatch(newdb, national_id)
               match == SelectSeq(newdb, LAMBDA row : row.national_id.s = national_id)
           IN  IF first # 0
               THEN Step(Put(state, "customer_id", newdb[first].customer_id),
                         match, <<Effect("lookup", national_id)>>)
               ELSE Step(Put(state, "error", NotFoundError(national_id)),
                         match, <<Effect("lookup", national_id)>>)

validate_customer_node(state, db) ==
  LET raw_id == Get(state, "national_id", None)
  IN  IF ~Truthy(raw_id)
      THEN Step(Put(state, "error", MissingIdError), db, <<>>)
      ELSE LET national_id == Strip(raw_id)
               newdb == NormalizedColumn(db)
               first == FirstMatch(newdb, national_id)
           IN  IF first # 0
               THEN Step(Put(state, "customer_id", newdb[first].customer_id),
                         newdb, <<Effect("lookup", national_id)>>)
               ELSE Step(Put(state, "error", NotFoundError(national_id)),
                         newdb, <<Effect("lookup", national_id)>>)

UnsupportedActionError(action) == <<"Action '">> \o PyStr(action) \o <<"' is not supported.">>

\* execute_action_node without the `if 'error' in state` guard
execute_action_node_NoShortCircuit(state, db) ==
  LET action == Get(state, "action", None)
      customer_id == Get(state, "customer_id", None)
  IN  IF action \notin DOMAIN action_function_map
      THEN Step(Put(state, "error", UnsupportedActionError(action)), db, <<>>)
      ELSE Step(Put(state, "result", CallHandler(action_function_map[action], customer_id)),
                db, <<Effect(action_function_map[action], PyStr(customer_id))>>)

\* execute_action_node that records nothing for an action without a handler
execute_action_node_SilentUnsupported(state, db) ==
  IF "error" \in DOMAIN state THEN Step(state, db, <<>>)
  ELSE LET action == Get(state, "action", None)
           customer_id == Get(state, "customer_id", None)
       IN  IF action \notin DOMAIN action_function_map
           THEN Step(state, db, <<>>)
           ELSE Step(Put(state, "result", CallHandler(action_function_map[action], customer_id)),
                     db, <<Effect(action_function_map[action], PyStr(customer_id))>>)

\* execute_action_node that indexes the handler map without the membership
\* test: the KeyError lands in the except clause
execute_action_node_NoMembershipCheck(state, db) ==
  IF "error" \in DOMAIN state THEN Step(state, db, <<>>)
  ELSE LET action == Get(state, "action", None)
           customer_id == Get(state, "customer_id", None)
       IN  IF action \notin DOMAIN action_function_map
           THEN Step(Put(state, "error", <<"Action execution failed: ">> \o PyStr(action)),
                     db, <<>>)
           ELSE Step(Put(state, "result", CallHandler(action_function_map[action], customer_id)),
                     db, <<Effect(action_function_map[action], PyStr(customer_id))>>)

execute_action_node(state, db) ==
  IF "error" \in DOMAIN state THEN Step(state, db, <<>>)
  ELSE LET action == Get(state, "action", None)
           customer_id == Get(state, "customer_id", None)
       IN  IF action \notin DOMAIN action_function_map
           THEN Step(Put(state, "error", UnsupportedActionError(action)), db, <<>>)
           ELSE Step(Put(state, "result", CallHandler(action_function_map[action], customer_id)),
                     db, <<Effect(action_function_map[action], PyStr(customer_id))>>)

\* ---- the server process --------------------------------------------------
VARIABLES
  CUSTOMER_DB,   \* the customers table, a module-level global
  ACTIONS_DB,    \* the actions table, a module-level global
  state,         \* state[r]: the GraphState of run r
  pc,            \* pc[r]: the node run r executes next, "END" after the last
  effects        \* effects[r]: the collaborator calls run r made, in order

vars == <<CUSTOMER_DB, ACTIONS_DB, state, pc, effects>>

Files == [filename : Filenames, content : {Decoded(t) : t \in Texts} \cup {Corrupt}]

\* process_doc: initial_state = {"file": file}
InitialState(file) == [file |-> file]

\* the graph with an edge from execute_action back to the entry point
NextNode_LoopBack(node) ==
  CASE node = "extract_text" -> "parse_text"
    [] node = "parse_text" -> "validate_customer"
    [] node = "validate_customer" -> "execute_action"
    [] node = "execute_action" -> "extract_text"

\* the edges of the compiled graph
NextNode(node) ==
  CASE node = "extract_text" -> "parse_text"
    [] node = "parse_text" -> "validate_customer"
    [] node = "validate_customer" -> "execute_action"
    [] node = "execute_action" -> "END"

\* one request is served; the other runs never start
Init ==
  /\ CUSTOMER_DB \in Registries
  /\ ACTIONS_DB \in Catalogs
  /\ \E file \in Files :
       state = [r \in Runs |-> IF r = 1 THEN InitialState(file) ELSE <<>>]
  /\ pc = [r \in Runs |-> IF r = 1 THEN "extract_text" ELSE "idle"]
  /\ effects = [r \in Runs |-> <<>>]

\* run r's node returned `out`
Commit(r, out) ==
  /\ state' = [state EXCEPT ![r] = out.state]
  /\ CUSTOMER_DB' = out.db
  /\ effects' = [effects EXCEPT ![r] = @ \o out.effects]
  /\ pc' = [pc EXCEPT ![r] = NextNode(@)]
  /\ UNCHANGED ACTIONS_DB

ExtractText(r) ==
  /\ pc[r] = "extract_text"
  /\ \E lang \in LangOutcomes : Commit(r, extract_text_node(state[r], CUSTOMER_DB, lang))

ParseText(r) ==
  /\ pc[r] = "parse_text"
  /\ Commit(r, parse_text_node(state[r], CUSTOMER_DB))

ValidateCustomer(r) ==
  /\ pc[r] = "validate_customer"
  /\ Commit(r, validate_customer_node(state[r], CUSTOMER_DB))

ExecuteAction(r) ==
  /\ pc[r] = "execute_action"
  /\ Commit(r, execute_action_node(state[r], CUSTOMER_DB))

Next ==
  \E r \in Runs :
    \/ ExtractText(r)
    \/ ParseText(r)
    \/ ValidateCustomer(r)
    \/ ExecuteAction(r)

Spec == Init /\ [][Next]_vars

\* several requests are served, their nodes interleaved
ConcFiles ==
  { [filename |-> <<"order", ".pdf">>,
     content |-> Decoded(<<Word("Freeze"), Word("National ID"), Digits(ID1)>>)],
    [filename |-> <<"order", ".txt">>,
     content |-> Decoded(<<Word("release"), Word("National ID"), Digits(ID2)>>)],
    [filename |-> <<"scan", ".png">>, content |-> Corrupt] }

InitConc ==
  /\ CUSTOMER_DB \in Registries
  /\ ACTIONS_DB \in Catalogs
  /\ state \in [Runs -> {InitialState(file) : file \in ConcFiles}]
  /\ pc = [r \in Runs |-> "extract_text"]
  /\ effects = [r \in Runs |-> <<>>]

SpecConc == InitConc /\ [][Next]_vars

\* one request for one of the files above; graph.invoke runs each node of the
\* run to completion, so a node that can run does run
InitRun ==
  /\ CUSTOMER_DB \in Registries
  /\ ACTIONS_DB \in Catalogs
  /\ \E file \in ConcFiles :
       state = [r \in Runs |-> IF r = 1 THEN InitialState(file) ELSE <<>>]
  /\ pc = [r \in Runs |-> IF r = 1 THEN "extract_text" ELSE "idle"]
  /\ effects = [r \in Runs |-> <<>>]

FairSpecRun == InitRun /\ [][Next]_vars /\ WF_vars(Next)

\* the customer matcher on its own: validate_customer_node called on a
\* GraphState that holds any identifier, then execute_action_node
MatchIds ==
  { None, <<>>, <<" ">>, ID1, <<" ">> \o ID1 \o <<" ">>, ID2, SubSeq(ID1, 1, 8),
    ID1 \o <<"1">> }

InitMatch ==
  /\ CUSTOMER_DB \in Registries
  /\ ACTIONS_DB \in Catalogs
  /\ \E national_id \in MatchIds, action \in {None, FREEZE_FUNDS, RELEASE_FUNDS} :
       state = [r \in Runs |->
                  IF r = 1
                  THEN [file |-> [filename |-> <<"order", ".txt">>, content |-> Decoded(<<>>)],
                        text |-> <<>>, national_id |-> national_id, action |-> action]
                  ELSE <<>>]
  /\ pc = [r \in Runs |-> IF r = 1 THEN "validate_customer" ELSE "idle"]
  /\ effects = [r \in Runs |-> <<>>]

NextMatch == \E r \in Runs : ValidateCustomer(r) \/ ExecuteAction(r)

SpecMatch == InitMatch /\ [][NextMatch]_vars

\* entity extraction on its own: one request per text, one registry
InitEntities ==
  /\ CUSTOMER_DB = <<Row(IntCell(1234567890), <<"CUST001">>)>>
  /\ ACTIONS_DB = << <<"Freeze", " ", "Funds">>, <<"Release", " ", "Funds">> >>
  /\ \E text \in EntityTexts :
       state = [r \in Runs |->
                  IF r = 1
                  THEN InitialState([filename |-> <<"order", ".txt">>, content |-> Decoded(text)])
                  ELSE <<>>]
  /\ pc = [r \in Runs |-> IF r = 1 THEN "extract_text" ELSE "idle"]
  /\ effects = [r \in Runs |-> <<>>]

SpecEntities == InitEntities /\ [][Next]_vars

\* ---- vocabulary of the properties ---------------------------------------
Has(r, key) == key \in DOMAIN state[r]

Finished(r) == pc[r] = "END"

HandlerCalls(r) ==
  {i \in 1..Len(effects[r]) : effects[r][i].op \in {"freeze_funds", "release_funds"}}

\* the identifier has a row in the registry, read as validate_customer_node
\* reads it
Registered(national_id) == FirstMatch(NormalizedColumn(CUSTOMER_DB), national_id) # 0

CustomerOf(national_id) ==
  NormalizedColumn(CUSTOMER_DB)[FirstMatch(NormalizedColumn(CUSTOMER_DB), national_id)].customer_id

\* the run parsed a non-empty identifier
ParsedId(r) == Has(r, "national_id") /\ Truthy(state[r].national_id)

FreezeWord(text) ==
  \E s \in 1..Len(action_keywords[1].synonyms) :
    WholeWord(LowerText(text), action_keywords[1].synonyms[s])

SupportedSuffix(r) == DecoderOf(Lower(state[r].file.filename)) # ""

\* ---- properties -----------------------------------------------------------

\* C1: when a run has completed, exactly one of `result` and `error` is in its
\* GraphState: never both, never neither.
C1_ExactlyOneOfResultError ==
  \A r \in Runs : Finished(r) => (Has(r, "result") # Has(r, "error"))

C1_Witness ==
  \E r \in Runs : Finished(r) /\ Has(r, "result") /\ ~Has(r, "error")

\* C2: once a node has set `error`, no later node overwrites or clears it, so
\* the error at completion is the first failing node's.
C2_FirstErrorKept ==
  [][\A r \in Runs :
       Has(r, "error") => ("error" \in DOMAIN state'[r] /\ state'[r].error = state[r].error)]_vars

\* C3: a node that runs after `error` was set returns the GraphState unchanged
\* and calls no collaborator (no registry lookup, no handler).
C3_ShortCircuit ==
  [][\A r \in Runs :
       Has(r, "error") => (state'[r] = state[r] /\ effects'[r] = effects[r])]_vars

\* C4: a run whose parsed identifier is non-empty and has no row in the
\* registry never sets `result` and never calls a handler, and from the
\* validation on its error is the NotFound message for that identifier.
C4_UnregisteredIdDiscarded ==
  \A r \in Runs :
    (ParsedId(r) /\ ~Registered(Strip(state[r].national_id)))
      => /\ ~Has(r, "result")
         /\ HandlerCalls(r) = {}
         /\ pc[r] \in {"execute_action", "END"}
              => (Has(r, "error") /\ state[r].error = NotFoundError(Strip(state[r].national_id)))

C4_Witness ==
  \E r \in Runs :
    /\ Finished(r)
    /\ ParsedId(r) /\ ~Registered(Strip(state[r].national_id))
    /\ state[r].action = FREEZE_FUNDS
    /\ Has(r, "error")

\* C5: once `error` is set, no later node sets or changes `result` or
\* `customer_id`.
C5_NoResultAfterError ==
  [][\A r \in Runs :
       Has(r, "error") =>
         /\ ("result" \in DOMAIN state'[r]) <=> Has(r, "result")
         /\ ("customer_id" \in DOMAIN state'[r]) <=> Has(r, "customer_id")
         /\ Get(state'[r], "result", None) = Get(state[r], "result", None)
         /\ Get(state'[r], "customer_id", None) = Get(state[r], "customer_id", None)]_vars

C5_Witness ==
  \E r \in Runs :
    /\ Finished(r)
    /\ ~Has(r, "text") /\ Has(r, "error")
    /\ ~Has(r, "result") /\ ~Has(r, "customer_id")

\* C6: a file whose suffix is not supported ends in a failure that reports the
\* unsupported format (not the missing-identifier message), with no decoder,
\* lookup or handler called and no customer or result set.
C6_UnsupportedFormatSurfaced ==
  \A r \in Runs :
    (Finished(r) /\ ~SupportedSuffix(r))
      => /\ Has(r, "error") /\ state[r].error # MissingIdError
         /\ effects[r] = <<>>
         /\ ~Has(r, "customer_id") /\ ~Has(r, "result")

\* C7 as stated: if the normalised text holds a lead-in phrase followed by a
\* registered identifier and a freeze synonym as a whole word, the run ends in
\* success for that identifier's customer.
C7_AnyRegisteredIdSucceeds ==
  \A r \in Runs :
    (Finished(r) /\ Has(r, "text") /\ FreezeWord(state[r].text)) =>
      \A i \in 1..Len(state[r].text) :
        LET lowered == LowerText(state[r].text)
        IN  (MatchAt(lowered, i) # 0 /\ Registered(CapturedAt(lowered, i)))
              => /\ ~Has(r, "error")
                 /\ Has(r, "customer_id")
                 /\ state[r].customer_id = CustomerOf(CapturedAt(lowered, i))
                 /\ state[r].action = FREEZE_FUNDS
                 /\ Has(r, "result")
                 /\ state[r].result = <<"Funds frozen for customer ">> \o state[r].customer_id

\* C7, amended: if the identifier captured by the leftmost lead-in match of the
\* normalised text is registered and a freeze synonym occurs as a whole word,
\* the run ends in success: no error, customer_id the first registry row of
\* that identifier, action freeze_funds, result the freeze handler's output.
C7_FirstMatchRegisteredSucceeds ==
  \A r \in Runs :
    (Finished(r) /\ Has(r, "text") /\ FreezeWord(state[r].text)) =>
      LET national_id == NationalIdMatch(LowerText(state[r].text))
      IN  (national_id # None /\ Registered(national_id))
            => /\ ~Has(r, "error")
               /\ Has(r, "customer_id")
               /\ state[r].customer_id = CustomerOf(national_id)
               /\ state[r].action = FREEZE_FUNDS
               /\ Has(r, "result")
               /\ state[r].result = <<"Funds frozen for customer ">> \o state[r].customer_id

C7_Witness ==
  \E r \in Runs :
    /\ Finished(r) /\ Has(r, "text") /\ FreezeWord(state[r].text)
    /\ NationalIdMatch(LowerText(state[r].text)) # None
    /\ Registered(NationalIdMatch(LowerText(state[r].text)))
    /\ Has(r, "result")

\* C8: a run with a registered identifier and no action keyword completes with
\* the unsupported-action error for None, sets no result and calls no handler.
C8_NoActionIsAnError ==
  \A r \in Runs :
    (Finished(r) /\ ParsedId(r) /\ Registered(Strip(state[r].national_id))
       /\ state[r].action = None)
      => /\ Has(r, "error") /\ state[r].error = UnsupportedActionError(None)
         /\ ~Has(r, "result")
         /\ HandlerCalls(r) = {}

C8_Witness ==
  \E r \in Runs :
    /\ Finished(r) /\ ParsedId(r) /\ Registered(Strip(state[r].national_id))
    /\ state[r].action = None
    /\ Has(r, "customer_id")

\* C9: a handler is called only for an action whose canonical key is in the
\* catalog loaded from the actions table; an action outside it yields no
\* result.
C9_CatalogDecides ==
  \A r \in Runs :
    /\ HandlerCalls(r) # {} => state[r].action \in DOMAIN VALID_ACTIONS(ACTIONS_DB)
    /\ (Finished(r) /\ Get(state[r], "action", None) \notin DOMAIN VALID_ACTIONS(ACTIONS_DB))
         => ~Has(r, "result")

\* C10: no node of any run writes the customer registry or the action
\* catalog.
C10_RegistriesReadOnly ==
  [][CUSTOMER_DB' = CUSTOMER_DB /\ ACTIONS_DB' = ACTIONS_DB]_vars

\* the lower-cased words of a text
WordsOf(text) == {LowerPiece(text[i].w) : i \in {j \in 1..Len(text) : text[j].k = "word"}}

FreezeSynonyms == {"freeze", "block", "hold", "suspend", "restrict"}
ReleaseSynonyms == {"release", "unfreeze", "lift", "reactivate", "terminate"}

\* C11: the parsed action is freeze_funds when a freeze synonym is a word of
\* the text (wherever a release synonym stands), else release_funds when a
\* release synonym is a word of the text, else None; a word that only contains
\* a synonym does not count for it.
C11_FirstActionWins ==
  \A r \in Runs :
    (Has(r, "text") /\ Has(r, "action")) =>
      state[r].action =
        IF WordsOf(state[r].text) \cap FreezeSynonyms # {} THEN FREEZE_FUNDS
        ELSE IF WordsOf(state[r].text) \cap ReleaseSynonyms # {} THEN RELEASE_FUNDS
        ELSE None

C11_Witness ==
  \E r \in Runs :
    /\ Has(r, "text") /\ Has(r, "action")
    /\ "unfreeze" \in WordsOf(state[r].text)
    /\ WordsOf(state[r].text) \cap FreezeSynonyms = {}
    /\ state[r].action = RELEASE_FUNDS

\* the order of the stages, as the pipeline is described
StageOrder ==
  { <<"extract_text", "parse_text">>, <<"parse_text", "validate_customer">>,
    <<"validate_customer", "execute_action">>, <<"execute_action", "END">> }

\* C12: a run moves only from one stage to the next in the order extract_text,
\* parse_text, validate_customer, execute_action, END, whether or not an error
\* is set; nothing leaves END, and every run reaches END.
C12_StagesInOrderThenDone ==
  /\ [][\A r \in Runs : pc'[r] # pc[r] => <<pc[r], pc'[r]>> \in StageOrder]_vars
  /\ \A r \in Runs : pc[r] # "idle" => <>(pc[r] = "END")

C12_Witness ==
  \E r \in Runs : Finished(r) /\ Has(r, "error") /\ ~Has(r, "text") /\ Len(effects[r]) = 1

\* what extract_text_from_any_file returns for the run's file when no decoder
\* raises
RawText(r) ==
  IF SupportedSuffix(r) THEN state[r].file.content.text ELSE UnsupportedText

DecodeRaises(r) == SupportedSuffix(r) /\ ~state[r].file.content.ok

\* detection raised, the text is English already, or translation raised
PassThrough(lang) ==
  lang.detect = "raise" \/ lang.detect = "en" \/ lang.translate = "raise"

\* C13: when no decoder raises, the extract stage sets no error whatever the
\* language engines do: `text` becomes the extracted text or its translation,
\* and it is the extracted text, unchanged, whenever detection fails, the
\* language is 'en' or translation fails.
C13_NormalizeNeverFails ==
  [][\A r \in Runs :
       (pc[r] = "extract_text" /\ pc'[r] = "parse_text" /\ ~DecodeRaises(r)) =>
         /\ "error" \notin DOMAIN state'[r]
         /\ "text" \in DOMAIN state'[r]
         /\ state'[r].text = RawText(r) \/ state'[r].text \in TranslatedTexts
         /\ \A lang \in LangOutcomes :
              PassThrough(lang) =>
                extract_text_node(state[r], CUSTOMER_DB, lang).state
                  = Put(state[r], "text", RawText(r))]_vars

C13_Witness ==
  \E r \in Runs :
    /\ pc[r] = "parse_text" /\ ~Has(r, "error")
    /\ Has(r, "text") /\ state[r].text = RawText(r) /\ RawText(r) \notin TranslatedTexts

Lookups(r) == {i \in 1..Len(effects[r]) : effects[r][i].op = "lookup"}

NextRun(text, i) ==
  LET later == {j \in (i + 1)..Len(text) : text[j].k = "digits"}
  IN  IF later = {} THEN 0 ELSE CHOOSE m \in later : \A n \in later : m <= n

\* the run after lead-in token i is 8 to 20 digits long and at most 10
\* characters away
Qualifies(text, i) ==
  /\ NextRun(text, i) # 0
  /\ Len(text[NextRun(text, i)].d) \in MinDigits..MaxDigits
  /\ GapLen(text, i, NextRun(text, i)) <= MaxGap

\* C15: the parsed identifier is never the empty string; it is None when no
\* lead-in phrase is followed by a qualifying digit run; otherwise it is the
\* run after the first lead-in phrase that has one, and in any case a non-None
\* identifier is a whole digit run of the text, 8 to 20 digits long.
C15_IdentifierIsWholeRun ==
  \A r \in Runs :
    (Has(r, "text") /\ Has(r, "national_id")) =>
      LET text == LowerText(state[r].text)
          id == state[r].national_id
          leads == {i \in 1..Len(text) : text[i].w \in LeadIns /\ Qualifies(text, i)}
      IN  /\ id # <<>>
          /\ leads = {} => id = None
          /\ leads # {} =>
               id = text[NextRun(text, CHOOSE m \in leads : \A n \in leads : m <= n)].d
          /\ id # None =>
               /\ Len(id) \in MinDigits..MaxDigits
               /\ \E j \in 1..Len(text) : text[j].k = "digits" /\ text[j].d = id

\* C16: a finished run that has `result` has no `error`, its customer_id is the
\* registry's customer reference for the parsed identifier, its action is a key
\* of the handler map, its result is that handler applied to customer_id, and it
\* called a handler exactly once, that one on customer_id; a finished run that
\* has `error` called no handler.
C16_SuccessInvariant ==
  \A r \in Runs :
    /\ (Finished(r) /\ Has(r, "result")) =>
         /\ ~Has(r, "error")
         /\ ParsedId(r) /\ Registered(Strip(state[r].national_id))
         /\ Has(r, "customer_id")
         /\ state[r].customer_id = CustomerOf(Strip(state[r].national_id))
         /\ Has(r, "action") /\ state[r].action \in DOMAIN action_function_map
         /\ state[r].result =
              CallHandler(action_function_map[state[r].action], state[r].customer_id)
         /\ Cardinality(HandlerCalls(r)) = 1
         /\ \A i \in HandlerCalls(r) :
              effects[r][i] =
                Effect(action_function_map[state[r].action], state[r].customer_id)
    /\ (Finished(r) /\ Has(r, "error")) => HandlerCalls(r) = {}

C16_Witness ==
  \E r \in Runs :
    /\ Finished(r) /\ Has(r, "result")
    /\ state[r].action = RELEASE_FUNDS
    /\ Cardinality(HandlerCalls(r)) = 1

IdentifierErrors(r) ==
  {MissingIdError} \cup
    (IF ParsedId(r) THEN {NotFoundError(Strip(state[r].national_id))} ELSE {})

\* C17: a finished run whose document has no identifier, or one that is not
\* registered, ends with the identifier error (missing or not found) whether or
\* not an action was recognized; a finished run ends with the
\* unsupported-action error only if its identifier matched a registry row.
C17_IdentifierErrorFirst ==
  \A r \in Runs :
    Finished(r) =>
      /\ ~(ParsedId(r) /\ Registered(Strip(state[r].national_id))) =>
           /\ Has(r, "error")
           /\ state[r].error \in IdentifierErrors(r)
           /\ state[r].error # UnsupportedActionError(Get(state[r], "action", None))
      /\ (Has(r, "error")
            /\ state[r].error = UnsupportedActionError(Get(state[r], "action", None))) =>
           /\ ParsedId(r) /\ Registered(Strip(state[r].national_id))
           /\ Has(r, "customer_id")

C17_Witness ==
  \E r \in Runs :
    /\ Finished(r) /\ Has(r, "text")
    /\ ParsedId(r) /\ ~Registered(Strip(state[r].national_id))
    /\ state[r].action = None
    /\ state[r].error = NotFoundError(Strip(state[r].national_id))

\* the run has been through validate_customer_node
Validated(r) == pc[r] \in {"execute_action", "END"}

\* two validated runs with the same parsed identifier have the same customer
\* reference, and the same error as long as neither has executed
SameOutcome ==
  \A r1, r2 \in Runs :
    (Validated(r1) /\ Validated(r2)
       /\ Get(state[r1], "national_id", None) = Get(state[r2], "national_id", None)) =>
      /\ Has(r1, "customer_id") <=> Has(r2, "customer_id")
      /\ Get(state[r1], "customer_id", None) = Get(state[r2], "customer_id", None)
      /\ (pc[r1] = "execute_action" /\ pc[r2] = "execute_action") =>
           Get(state[r1], "error", None) = Get(state[r2], "error", None)

\* C18: the stringify-and-trim rewrite is idempotent, a step from a normalized
\* registry leaves it as it is, no step changes what the rewrite yields, and so
\* runs that parsed the same identifier get the same customer reference or
\* error however their nodes interleave with other runs.
C18_NormalizationIdempotent ==
  [][/\ NormalizedColumn(NormalizedColumn(CUSTOMER_DB)) = NormalizedColumn(CUSTOMER_DB)
     /\ NormalizedColumn(CUSTOMER_DB') = NormalizedColumn(CUSTOMER_DB)
     /\ CUSTOMER_DB = NormalizedColumn(CUSTOMER_DB) => CUSTOMER_DB' = CUSTOMER_DB
     /\ SameOutcome /\ SameOutcome']_vars

\* one run validated on the registry as loaded and another on the registry the
\* first had rewritten, both matched to the same customer
C18_Witness ==
  \E r1, r2 \in Runs :
    /\ r1 # r2 /\ Finished(r1) /\ Finished(r2)
    /\ state[r1].national_id = state[r2].national_id
    /\ Has(r1, "customer_id") /\ Has(r2, "customer_id")
    /\ Len(CUSTOMER_DB) > 0
    /\ \A i \in 1..Len(CUSTOMER_DB) : CUSTOMER_DB[i].national_id.t = "str"

====
